---- MODULE Spec2Model ----
(***************************************************************************)
(* Model of src/iis.py: get_iis_additive_deletion_method, the additive /   *)
(* deletion filter that extracts an inconsistent subset of the constraints *)
(* of an infeasible python-mip model.                                      *)
(*                                                                         *)
(* The LP/MIP solver behind mip.Model.optimize() is outside the source; it *)
(* is modelled as a sound but possibly inconclusive oracle: it never calls *)
(* a feasible system infeasible or an infeasible one feasible, but it may  *)
(* return a status that is neither (OTHER_STATUS).                         *)
(***************************************************************************)
EXTENDS Integers, Sequences, FiniteSets, TLC

VARIABLES
    pc,          \* position inside get_iis_additive_deletion_method
    mip_model,   \* the caller's model: [vars, constrs, status]
    premade,     \* TRUE iff premade_aux_mip_model is not None
    aux,         \* premade_aux_mip_model / aux_mip_model (NoModel before creation)
    i,           \* the counter i of the additive loop
    it,          \* position of the running for-loop's iterator
    temp,        \* temp = iis[i:].copy(): constraint handles
    expr,        \* the cached expr of the deletion loop
    ret,         \* the returned value (NoReturn before the return)
    call,        \* 1 for the caller's first invocation, 2 for its second
    entry,       \* history: mip_model and premade aux as they were at entry
    hist,        \* history of this invocation: solves per model, removals, ...
    prev         \* history: constraints and result of the first invocation

vars == <<pc, mip_model, premade, aux, i, it, temp, expr, ret, call, entry,
          hist, prev>>

----------------------------------------------------------------------------
(* Bounds of the model *)

\* largest value a variable may take; stands for mip.INF
INF == 7
\* longest constraint list of an original model
MaxConstrs == 3

----------------------------------------------------------------------------
(* mip.OptimizationStatus, as far as the function distinguishes it *)

LOADED == "LOADED"
OPTIMAL == "OPTIMAL"
FEASIBLE == "FEASIBLE"
INFEASIBLE == "INFEASIBLE"
INT_INFEASIBLE == "INT_INFEASIBLE"
\* any remaining status (ERROR, UNBOUNDED, NO_SOLUTION_FOUND, CUTOFF, OTHER)
OTHER_STATUS == "OTHER"

----------------------------------------------------------------------------
(* Variables and linear constraints *)

Var(n, l, u, k) == [name |-> n, lb |-> l, ub |-> u, var_type |-> k]

\* coef[j] is the coefficient on the variable of index j
Lin(c, s, r) == [coef |-> c, sense |-> s, rhs |-> r]

\* the constraints of test01_iis, one more bound on v2, and one coupling row
E1 == Lin(<<1, 0>>, "<=", 5)
E2 == Lin(<<1, 0>>, ">=", 6)
E3 == Lin(<<0, 1>>, "<=", 1)
E4 == Lin(<<0, 1>>, ">=", 2)
E5 == Lin(<<1, -1>>, ">=", 4)
Catalogue == {E1, E2, E3, E4, E5}

\* m.add_var() gives a continuous variable in [0, INF)
DefaultVars == <<Var("v1", 0, INF, "C"), Var("v2", 0, INF, "C")>>
BinaryVars == <<Var("v1", 0, INF, "C"), Var("v2", 0, 1, "B")>>
EmptyBoxVars == <<Var("v1", 2, 1, "I"), Var("v2", 0, INF, "C")>>
VarConfigs == {DefaultVars, BinaryVars, EmptyBoxVars}

RECURSIVE Dot(_, _, _)
Dot(c, x, j) == IF j = 0 THEN 0 ELSE c[j] * x[j] + Dot(c, x, j - 1)

Sat(e, x) ==
    LET lhs == Dot(e.coef, x, Len(e.coef))
    IN  IF e.sense = "<=" THEN lhs <= e.rhs ELSE lhs >= e.rhs

\* every row refers only to columns the model has
WellFormed(vs, es) == \A k \in 1..Len(es) : Len(es[k].coef) <= Len(vs)

\* ground truth: some point of the variables' box satisfies every row
Feasible(vs, es) ==
    /\ WellFormed(vs, es)
    /\ \E x \in [1..Len(vs) -> 0..INF] :
          /\ \A j \in 1..Len(vs) : vs[j].lb <= x[j] /\ x[j] <= vs[j].ub
          /\ \A k \in 1..Len(es) : Sat(es[k], x)

\* no expression cached yet
NoExpr == Lin(<<>>, "none", 0)
\* what reading constr.expr gives once the constraint was removed: the row
\* index of a removed Constr is -1 (comment at lines 116-119)
InvalidRow == Lin(<<>>, "invalid", 0)

----------------------------------------------------------------------------
(* mip.Model.optimize(): the statuses a sound solver may report *)

HasIntegerVar(vs) == \E j \in 1..Len(vs) : vs[j].var_type # "C"

\* FEASIBLE and INT_INFEASIBLE are statuses of the branch-and-bound search and
\* are reported only for models that have integer or binary variables
SolveOutcomes(vs, es) ==
    IF ~WellFormed(vs, es) THEN {OTHER_STATUS}
    ELSE IF Feasible(vs, es)
    THEN {OPTIMAL, OTHER_STATUS} \cup (IF HasIntegerVar(vs) THEN {FEASIBLE} ELSE {})
    ELSE {INFEASIBLE, OTHER_STATUS}
            \cup (IF HasIntegerVar(vs) THEN {INT_INFEASIBLE} ELSE {})

----------------------------------------------------------------------------
(* mip.Model and its ConstrList *)

\* a Constr of a ConstrList: a handle (id) and the row it stands for
Constr(h, e) == [id |-> h, expr |-> e]

Model(x, vs, cs, st, obj, emph, pre, nid) ==
    [exists |-> x, vars |-> vs, constrs |-> cs, status |-> st, objective |-> obj,
     emphasis |-> emph, preprocess |-> pre, nextId |-> nid]

\* premade_aux_mip_model = None, before mip.Model() is called
NoModel == Model(FALSE, <<>>, <<>>, LOADED, 0, "DEFAULT", -1, 0)

\* mip.Model(): no variables, no constraints, default parameters
NewModel == Model(TRUE, <<>>, <<>>, LOADED, 0, "DEFAULT", -1, 0)

\* the expressions of a ConstrList, in its order: [c.expr for c in constrs]
RECURSIVE Exprs(_)
Exprs(cs) == IF cs = <<>> THEN <<>> ELSE <<Head(cs).expr>> \o Exprs(Tail(cs))

Range(s) == {s[k] : k \in 1..Len(s)}

\* Constr.idx: the position of the handle in the list, 0 once it was removed
IdxOf(cs, h) ==
    IF \E k \in 1..Len(cs) : cs[k].id = h
    THEN CHOOSE k \in 1..Len(cs) : cs[k].id = h
    ELSE 0

\* constr.expr read through the handle h
ExprOf(m, h) ==
    IF IdxOf(m.constrs, h) = 0 THEN InvalidRow ELSE m.constrs[IdxOf(m.constrs, h)].expr

\* ConstrList.add(lin_expr) / Model.add_constr(lin_expr): appended at the end
AddConstr(m, e) ==
    [m EXCEPT !.constrs = Append(@, Constr(m.nextId, e)), !.nextId = @ + 1]

RECURSIVE Without(_, _)
Without(cs, h) ==
    IF cs = <<>> THEN <<>>
    ELSE IF Head(cs).id = h THEN Without(Tail(cs), h)
    ELSE <<Head(cs)>> \o Without(Tail(cs), h)

\* ConstrList.remove([constr])
RemoveConstr(m, h) == [m EXCEPT !.constrs = Without(@, h)]

\* mutant: only the name is passed to add_var, which then takes its defaults:
\* lb = 0, ub = INF, a continuous variable
AddVar_Defaults(m, v) == [m EXCEPT !.vars = Append(@, Var(v.name, 0, INF, "C"))]

\* Model.add_var(name, lb, ub, var_type)
AddVar(m, v) == [m EXCEPT !.vars = Append(@, Var(v.name, v.lb, v.ub, v.var_type))]

\* mutant: clear() is not called, the premade model is used as it is
Clear_Skipped(m) == m

\* Model.clear(): variables, constraints and parameters reset on a new solver
\* instance; nothing of m is kept
Clear(m) == NewModel

\* Model.optimize() leaves one of the solver's statuses in the model
Optimized(m, st) == [m EXCEPT !.status = st]

----------------------------------------------------------------------------
(* The states a caller can hand over *)

\* constraint lists of the original model: rows of the catalogue, none twice
ConstrLists ==
    {s \in UNION {[1..n -> Catalogue] : n \in 0..MaxConstrs} :
        \A a, b \in 1..Len(s) : a # b => s[a] # s[b]}

\* a row and a variable that belong to no original model
StaleRow == Lin(<<1>>, ">=", 1)
StaleVar == Var("z", 0, 0, "I")

\* models a caller may pass as premade_aux_mip_model: one used for something
\* else before, and one left behind by an earlier call of the function
PremadeModels ==
    { Model(TRUE, <<StaleVar>>, <<Constr(0, StaleRow)>>, INFEASIBLE, 1,
            "OPTIMALITY", 0, 1),
      Model(TRUE, DefaultVars, <<Constr(0, E3), Constr(2, E4)>>, OPTIMAL, 0,
            "FEASIBILITY", 1, 3) }

\* set(), returned for a feasible model, has no members
EmptySet == <<>>

NoReturn == [returned |-> FALSE, items |-> <<>>]
Returned(cs) == [returned |-> TRUE, items |-> cs]

\* the first invocation as the second one remembers it
NoPrev == [done |-> FALSE, constrs |-> <<>>, result |-> <<>>, i |-> 0]

\* orig, aux: optimize() calls on the original and on the auxiliary model;
\* infeas: an additive solve reported INFEASIBLE or INT_INFEASIBLE;
\* removed: constraints removed by the deletion loop
NoHist == [orig |-> 0, aux |-> 0, infeas |-> FALSE, removed |-> 0]

Init ==
    /\ pc = "entry"
    /\ \E vs \in VarConfigs, cs \in ConstrLists :
          \E st \in {LOADED} \cup SolveOutcomes(vs, cs) :
             mip_model = [vars |-> vs, constrs |-> cs, status |-> st]
    /\ premade \in BOOLEAN
    /\ aux \in (IF premade THEN PremadeModels ELSE {NoModel})
    /\ i = 0
    /\ it = 0
    /\ temp = <<>>
    /\ expr = NoExpr
    /\ ret = NoReturn
    /\ call = 1
    /\ entry = [model |-> mip_model, aux |-> aux]
    /\ hist = NoHist
    /\ prev = NoPrev

----------------------------------------------------------------------------
(* get_iis_additive_deletion_method, statement by statement *)

IsFeasibleStatus(st) == st = FEASIBLE \/ st = OPTIMAL
IsInfeasibleStatus(st) == st = INFEASIBLE \/ st = INT_INFEASIBLE

\* mutant: FEASIBLE is forgotten in the test of lines 67-69
ShortCircuits_OptimalOnly(st) == st = OPTIMAL

\* lines 67-69: the test that ends the call with an empty result
ShortCircuits(st) == IsFeasibleStatus(st)

\* mutant: the additive loop breaks on every status that is not a feasible one
Breaks_NotFeasible(st) == ~IsFeasibleStatus(st)

\* mutant: the additive loop never breaks and adds every constraint
Breaks_Never(st) == FALSE

\* lines 98-100: the test that breaks out of the additive loop
Breaks(st) == IsInfeasibleStatus(st)

\* mutant: the expression put back is read through the handle of the removed
\* constraint, constr.expr, which lines 116-119 warn against
ReinsertedExpr_FromHandle(cached, m, h) == ExprOf(m, h)

\* line 115: the expression put back is expr, cached by line 107
ReinsertedExpr(cached, m, h) == cached

\* mutant: the removed constraint is put back unless the status is an
\* infeasible one
Reinserts_UnlessInfeasible(st) == ~IsInfeasibleStatus(st)

\* mutant: the removed constraint is put back whatever the status
Reinserts_Always(st) == TRUE

\* lines 112-114: the test that puts a removed constraint back
Reinserts(st) == IsFeasibleStatus(st)

\* mutant: the deletion loop runs over the constraints before the trigger,
\* iis[:i]
Slice_Prefix(cs, k) == [j \in 1..k |-> cs[j].id]

\* mutant: the deletion loop runs over the whole list, iis[:]
Slice_Whole(cs, k) == [j \in 1..Len(cs) |-> cs[j].id]

\* line 104: the handles of iis[i:], copied into a list
Slice(cs, k) == [j \in 1..(Len(cs) - k) |-> cs[k + j].id]

\* mutant: the original model is solved on every call
NeedsSolve_Always(st) == TRUE

\* line 64: the test that solves the original model
NeedsSolve(st) == st = LOADED

\* the rows of a list in the catalogue's own order
CatalogueOrder == <<E1, E2, E3, E4, E5>>
Sorted(cs) == SelectSeq(CatalogueOrder, LAMBDA e : e \in Range(cs))

\* mutant: the loop runs over the constraints as a set, in an order of its
\* own that does not depend on the order of the model's list
NextConstr_Unordered(cs, k) == Sorted(cs)[k + 1]

\* line 93: the loop takes the constraints in the order of the model's list
NextConstr(cs, k) == cs[k + 1]

\* lines 64-65: the original model is solved if it never was
OptimizeIfLoaded ==
    /\ pc = "entry"
    /\ IF NeedsSolve(mip_model.status)
       THEN \E st \in SolveOutcomes(mip_model.vars, mip_model.constrs) :
               /\ mip_model' = [mip_model EXCEPT !.status = st]
               /\ hist' = [hist EXCEPT !.orig = @ + 1]
       ELSE UNCHANGED <<mip_model, hist>>
    /\ pc' = "check"
    /\ UNCHANGED <<premade, aux, i, it, temp, expr, ret, call, entry, prev>>

\* mutant: the premade model is cleared before the test of lines 67-69
ReturnEmpty_AfterClear ==
    /\ pc = "check"
    /\ ShortCircuits(mip_model.status)
    /\ aux' = IF premade THEN Clear(aux) ELSE aux
    /\ ret' = Returned(EmptySet)
    /\ pc' = "done"
    /\ UNCHANGED <<mip_model, premade, i, it, temp, expr, call, entry, hist,
                   prev>>

\* lines 67-70: nothing to explain for a feasible model
ReturnEmpty ==
    /\ pc = "check"
    /\ ShortCircuits(mip_model.status)
    /\ ret' = Returned(EmptySet)
    /\ pc' = "done"
    /\ UNCHANGED <<mip_model, premade, aux, i, it, temp, expr, call, entry,
                   hist, prev>>

\* lines 72-82: the auxiliary model is the cleared premade one or a new one
SetupAux ==
    /\ pc = "check"
    /\ ~ShortCircuits(mip_model.status)
    /\ aux' = [(IF premade THEN Clear(aux) ELSE NewModel) EXCEPT
                  !.emphasis = "FEASIBILITY", !.preprocess = 1, !.objective = 0]
    /\ it' = 0
    /\ pc' = "vars"
    /\ UNCHANGED <<mip_model, premade, i, temp, expr, ret, call, entry, hist,
                   prev>>

\* lines 84-88: one variable of the original model is mirrored
MirrorVar ==
    /\ pc = "vars"
    /\ it < Len(mip_model.vars)
    /\ aux' = AddVar(aux, mip_model.vars[it + 1])
    /\ it' = it + 1
    /\ UNCHANGED <<pc, mip_model, premade, i, temp, expr, ret, call, entry,
                   hist, prev>>

\* lines 90-92: iis aliases aux_mip_model.constrs; i = 0
StartAdditive ==
    /\ pc = "vars"
    /\ it = Len(mip_model.vars)
    /\ i' = 0
    /\ it' = 0
    /\ pc' = "add"
    /\ UNCHANGED <<mip_model, premade, aux, temp, expr, ret, call, entry,
                   hist, prev>>

\* lines 93-95: the next constraint of the original model is added
AdditiveAdd ==
    /\ pc = "add"
    /\ it < Len(mip_model.constrs)
    /\ aux' = AddConstr(aux, NextConstr(mip_model.constrs, it))
    /\ pc' = "solve"
    /\ UNCHANGED <<mip_model, premade, i, it, temp, expr, ret, call, entry,
                   hist, prev>>

\* lines 96-102: re-solve; leave the loop on the first infeasible status
AdditiveSolve ==
    /\ pc = "solve"
    /\ \E st \in SolveOutcomes(aux.vars, Exprs(aux.constrs)) :
          /\ aux' = Optimized(aux, st)
          /\ IF Breaks(st)
             THEN pc' = "slice" /\ UNCHANGED <<i, it>>
             ELSE pc' = "add" /\ i' = i + 1 /\ it' = it + 1
          /\ hist' = [hist EXCEPT !.aux = @ + 1,
                                  !.infeas = @ \/ IsInfeasibleStatus(st)]
    /\ UNCHANGED <<mip_model, premade, temp, expr, ret, call, entry, prev>>

\* line 93: the constraints of the original model are exhausted
AdditiveExhausted ==
    /\ pc = "add"
    /\ it = Len(mip_model.constrs)
    /\ pc' = "slice"
    /\ UNCHANGED <<mip_model, premade, aux, i, it, temp, expr, ret, call, entry,
                   hist, prev>>

\* line 104: temp = iis[i:].copy()
CopySlice ==
    /\ pc = "slice"
    /\ temp' = Slice(aux.constrs, i)
    /\ it' = 0
    /\ pc' = "del"
    /\ UNCHANGED <<mip_model, premade, aux, i, expr, ret, call, entry, hist,
                   prev>>

\* lines 106-109: the expression is read, then the constraint is removed
DeletionRemove ==
    /\ pc = "del"
    /\ it < Len(temp)
    /\ expr' = ExprOf(aux, temp[it + 1])
    /\ aux' = RemoveConstr(aux, temp[it + 1])
    /\ hist' = [hist EXCEPT !.removed = @ + 1]
    /\ pc' = "del_solve"
    /\ UNCHANGED <<mip_model, premade, i, it, temp, ret, call, entry, prev>>

\* lines 110-115: re-solve; the cached expression goes back on a feasible status
DeletionSolve ==
    /\ pc = "del_solve"
    /\ \E st \in SolveOutcomes(aux.vars, Exprs(aux.constrs)) :
          aux' = IF Reinserts(st)
                 THEN AddConstr(Optimized(aux, st),
                                ReinsertedExpr(expr, aux, temp[it + 1]))
                 ELSE Optimized(aux, st)
    /\ hist' = [hist EXCEPT !.aux = @ + 1]
    /\ it' = it + 1
    /\ pc' = "del"
    /\ UNCHANGED <<mip_model, premade, i, temp, expr, ret, call, entry, prev>>

\* line 121: return iis, the auxiliary model's own constraint list
ReturnIis ==
    /\ pc = "del"
    /\ it = Len(temp)
    /\ ret' = Returned(aux.constrs)
    /\ pc' = "done"
    /\ UNCHANGED <<mip_model, premade, aux, i, it, temp, expr, call, entry,
                   hist, prev>>

RECURSIVE Reverse(_)
Reverse(s) == IF s = <<>> THEN <<>> ELSE Append(Reverse(Tail(s)), Head(s))

\* lines 50-53: the caller invokes the function a second time, on a new model
\* that has the same variables and the same constraints in the opposite
\* order, and hands over the auxiliary model of the first call if there is one
CallAgain ==
    /\ pc = "done"
    /\ call = 1
    /\ mip_model' = [vars |-> mip_model.vars,
                     constrs |-> Reverse(mip_model.constrs),
                     status |-> LOADED]
    /\ premade' = aux.exists
    /\ aux' = aux
    /\ prev' = [done |-> TRUE, constrs |-> mip_model.constrs,
                result |-> Exprs(ret.items), i |-> i]
    /\ entry' = [model |-> mip_model', aux |-> aux']
    /\ hist' = NoHist
    /\ i' = 0
    /\ it' = 0
    /\ temp' = <<>>
    /\ expr' = NoExpr
    /\ ret' = NoReturn
    /\ call' = 2
    /\ pc' = "entry"

Next ==
    \/ OptimizeIfLoaded
    \/ ReturnEmpty
    \/ SetupAux
    \/ MirrorVar
    \/ StartAdditive
    \/ AdditiveAdd
    \/ AdditiveSolve
    \/ AdditiveExhausted
    \/ CopySlice
    \/ DeletionRemove
    \/ DeletionSolve
    \/ ReturnIis
    \/ CallAgain

Spec == Init /\ [][Next]_vars

----------------------------------------------------------------------------
(* Vocabulary of the properties *)

NumConstrs == Len(mip_model.constrs)

\* the call has returned
Done == pc = "done" /\ ret.returned

\* the call has returned from line 121, after both phases
RanBothPhases == Done /\ ~IsFeasibleStatus(mip_model.status)

\* the expressions of the returned collection: {c.expr for c in iis}
Result == Exprs(ret.items)

\* the additive loop was left by its break: constraint i is the trigger
TriggerFound == RanBothPhases /\ i < NumConstrs
Trigger == mip_model.constrs[i + 1]

\* the deletion phase put the trigger back
TriggerKept == TriggerFound /\ Trigger \in Range(Result)

\* the sequence es without the rows equal to e
RECURSIVE Minus(_, _)
Minus(es, e) ==
    IF es = <<>> THEN <<>>
    ELSE IF Head(es) = e THEN Minus(Tail(es), e)
    ELSE <<Head(es)>> \o Minus(Tail(es), e)

----------------------------------------------------------------------------
(* C1 *)

\* C1: Infeasibility preserved. When the original model's status is
\* INFEASIBLE or INT_INFEASIBLE, the returned constraints together with the
\* mirrored variables (those of the auxiliary model) have no solution,
\* whatever the statuses the solver returned on the way.
C1_InfeasibilityPreserved ==
    (Done /\ IsInfeasibleStatus(mip_model.status))
        => ~Feasible(aux.vars, Result)

----------------------------------------------------------------------------
(* C2 *)

\* every member of the result is needed: the result without it is feasible
Irreducible(vs, es) == \A k \in 1..Len(es) : Feasible(vs, Minus(es, es[k]))

\* C2: Irreducibility. For an infeasible model the returned collection is a
\* minimal infeasible subset: it is infeasible and the removal of any one
\* member makes it feasible.
C2_Irreducibility ==
    (Done /\ IsInfeasibleStatus(mip_model.status))
        => (~Feasible(aux.vars, Result) /\ Irreducible(aux.vars, Result))

\* C2 on the runs in which the solver was conclusive where it matters: the
\* variables alone are feasible, the trigger was found and put back after a
\* feasible re-solve. The members before the trigger are never tested.
C2_IrreducibleWhenTriggerKept ==
    (Done /\ IsInfeasibleStatus(mip_model.status) /\ TriggerKept)
        => Irreducible(aux.vars, Result)

----------------------------------------------------------------------------
(* C3 *)

\* C3: No-op on feasible input. When the status of the original model, after
\* the precondition solve if there was one, is OPTIMAL or FEASIBLE, the
\* function returns an empty collection.
C3_NoOpOnFeasible ==
    (Done /\ IsFeasibleStatus(mip_model.status)) => Result = <<>>

\* a model with constraints that was solved at entry, found feasible but not
\* proven optimal, and answered with the empty collection
C3_Witness ==
    /\ Done
    /\ mip_model.status = FEASIBLE
    /\ entry.model.status = LOADED
    /\ NumConstrs >= 2
    /\ Result = <<>>

----------------------------------------------------------------------------
(* C4 *)

\* C4: Last-trigger minimality. Whenever the trigger is a member of the
\* returned collection, the returned collection without the trigger is
\* feasible.
C4_LastTriggerMinimality ==
    TriggerKept => Feasible(aux.vars, Minus(Result, Trigger))

\* a trigger that follows at least one other constraint and was put back
C4_Witness ==
    /\ TriggerKept
    /\ i >= 1
    /\ hist.removed = 1
    /\ ~Feasible(aux.vars, Result)

----------------------------------------------------------------------------
(* C5 *)

\* C5: For an infeasible model whose variables alone are feasible, the result
\* is exactly the constraints at positions 0..k of the original list, k being
\* the first position at which the auxiliary model reported INFEASIBLE or
\* INT_INFEASIBLE (the value of i at the break), and nothing that follows
\* position k; for v1<=5, v1>=6, v2<=1 in this order it is {v1<=5, v1>=6}.
C5_PrefixUpToTrigger ==
    /\ (Done /\ IsInfeasibleStatus(mip_model.status) /\ hist.infeas
            /\ Feasible(mip_model.vars, <<>>))
          => Result = SubSeq(mip_model.constrs, 1, i + 1)
    /\ (Done /\ IsInfeasibleStatus(mip_model.status)
            /\ mip_model.vars = DefaultVars
            /\ mip_model.constrs = <<E1, E2, E3>>)
          => Range(Result) = {E1, E2}

----------------------------------------------------------------------------
(* C6 *)

\* es is infeasible and every proper subset of it is feasible
AllRequired(vs, es) == ~Feasible(vs, es) /\ Irreducible(vs, es)

\* C6: When every constraint of the model is required for infeasibility, the
\* returned collection equals the full original constraint set as an
\* unordered collection of expressions.
C6_AllRequiredAllReturned ==
    (Done /\ AllRequired(mip_model.vars, mip_model.constrs))
        => (Range(Result) = Range(mip_model.constrs) /\ Len(Result) = NumConstrs)

----------------------------------------------------------------------------
(* C7 *)

\* C7: Frame of the original model. Throughout a call the variables and the
\* constraint list of the original model are those of the entry; the model
\* is solved at most once, and only if its status at entry was LOADED;
\* otherwise its status stays what it was.
C7_OriginalFrame ==
    /\ mip_model.vars = entry.model.vars
    /\ mip_model.constrs = entry.model.constrs
    /\ hist.orig <= 1
    /\ hist.orig = 1 => entry.model.status = LOADED
    /\ hist.orig = 0 => mip_model.status = entry.model.status

\* a call that solved the original model at entry and went through both
\* phases, removing and re-solving, on a non-empty constraint list
C7_Witness ==
    /\ RanBothPhases
    /\ hist.orig = 1
    /\ hist.removed = 1
    /\ NumConstrs >= 2
    /\ mip_model.status # LOADED

----------------------------------------------------------------------------
(* C8 *)

\* the second phase of the function has begun or ended: the auxiliary model
\* is set up
PastSetup ==
    pc \in {"vars", "add", "solve", "slice", "del", "del_solve"} \/ RanBothPhases

\* handles first, first+1, ... for the rows es
Handles(es, first) == [k \in 1..Len(es) |-> Constr(first + k - 1, es[k])]

\* the constraints the additive loop has added so far
Added ==
    IF pc = "add" THEN i
    ELSE IF pc = "solve" THEN i + 1
    ELSE IF hist.infeas THEN i + 1 ELSE i

\* the auxiliary model of a call that was given no premade model, as a
\* function of the original model, the position in the code and the last
\* status the solver returned
AuxOfFreshCall ==
    LET cfg == [NewModel EXCEPT !.emphasis = "FEASIBILITY", !.preprocess = 1,
                                !.objective = 0]
        cs == mip_model.constrs
        tested == pc = "done" \/ (pc = "del" /\ hist.removed = 1)
        back == IF IsFeasibleStatus(aux.status)
                THEN <<Constr(i + 1, cs[i + 1])>> ELSE <<>>
    IN  IF pc = "vars"
        THEN [cfg EXCEPT !.vars = SubSeq(mip_model.vars, 1, it)]
        ELSE [cfg EXCEPT
                !.vars = mip_model.vars,
                !.status = aux.status,
                !.constrs =
                    IF pc = "del_solve" THEN Handles(SubSeq(cs, 1, i), 0)
                    ELSE IF tested /\ hist.infeas
                    THEN Handles(SubSeq(cs, 1, i), 0) \o back
                    ELSE Handles(SubSeq(cs, 1, Added), 0),
                !.nextId =
                    IF tested /\ hist.infeas THEN Added + Len(back) ELSE Added]

\* C8: Clear-and-reuse. Once set up, the auxiliary model of a call, premade
\* with whatever contents or not, is the auxiliary model of a call without a
\* premade model; so are its final variables and constraints and the
\* returned collection, and nothing of the premade contents is solved.
C8_ClearAndReuse ==
    PastSetup => (aux = AuxOfFreshCall /\ (Done => ret.items = aux.constrs))

\* a call that was handed a model with a stale variable and a stale row, and
\* one that was handed the leftovers of the first call, both gone through
\* both phases
C8_Witness ==
    /\ RanBothPhases
    /\ premade
    /\ entry.aux.vars # <<>>
    /\ entry.aux.constrs # <<>>
    /\ entry.aux.vars # mip_model.vars \/ call = 2
    /\ hist.removed = 1
    /\ NumConstrs >= 2

----------------------------------------------------------------------------
(* C9 *)

\* the first call found its trigger and put it back
FirstTriggerKept ==
    /\ prev.done
    /\ prev.i < Len(prev.constrs)
    /\ prev.constrs[prev.i + 1] \in Range(prev.result)

\* C9: Order sensitivity. The result follows the order of the list: when the
\* same constraints are fed in the opposite order and both calls keep their
\* trigger, each result is infeasible with the mirrored variables, and the
\* two results are the same collection only if both are the whole list.
C9_OrderSensitivity ==
    (call = 2 /\ TriggerKept /\ FirstTriggerKept)
        => /\ ~Feasible(aux.vars, prev.result)
           /\ ~Feasible(aux.vars, Result)
           /\ Range(prev.result) = Range(Result) => Len(Result) = NumConstrs

\* two orders of one constraint set that give two different collections,
\* each infeasible; they share no member, so the set has more than one
\* minimal infeasible subset
C9_Witness ==
    /\ call = 2
    /\ TriggerKept
    /\ FirstTriggerKept
    /\ Range(prev.constrs) = Range(mip_model.constrs)
    /\ prev.constrs # mip_model.constrs
    /\ Range(prev.result) \cap Range(Result) = {}
    /\ ~Feasible(aux.vars, prev.result)
    /\ ~Feasible(aux.vars, Result)

----------------------------------------------------------------------------
(* C10 *)

\* C10: Undetected infeasibility. If the status of the original model is not
\* FEASIBLE or OPTIMAL and no solve of the additive phase returned INFEASIBLE
\* or INT_INFEASIBLE, the additive loop runs through the whole list, the
\* deletion loop removes and tests nothing, and the function returns the
\* whole original constraint sequence, as a normal return.
C10_UndetectedInfeasibility ==
    (Done /\ ~IsFeasibleStatus(mip_model.status) /\ ~hist.infeas)
        => /\ i = NumConstrs
           /\ temp = <<>>
           /\ hist.removed = 0
           /\ hist.aux = NumConstrs
           /\ Result = mip_model.constrs

\* an infeasible model that the original solve reported infeasible and the
\* additive phase never did
C10_Witness ==
    /\ Done
    /\ IsInfeasibleStatus(mip_model.status)
    /\ ~hist.infeas
    /\ NumConstrs >= 2
    /\ Result = mip_model.constrs

\* the additive loop of lines 93-102 is running
InAdditivePhase == pc \in {"add", "solve"}

\* the additive loop has been left and the call has not returned
InDeletionPhase == pc \in {"slice", "del", "del_solve"}

\* the constraints of the original model that the auxiliary model would hold
\* after k additions
Prefix(k) == SubSeq(mip_model.constrs, 1, k)

\* C11: Additive-phase lock-step. Throughout the additive loop the
\* constraints of the auxiliary model are a prefix of the original model's
\* list, in its order and without gaps; every addition is followed by exactly
\* one solve before the next addition, so that the solves of the auxiliary
\* model number the additions when an addition is due and one less when a
\* solve is due; and once a solve has returned INFEASIBLE or INT_INFEASIBLE
\* the loop is over, with the constraints after the trigger never added.
C11_AdditiveLockStep ==
    /\ InAdditivePhase =>
          /\ Exprs(aux.constrs) = Prefix(Len(aux.constrs))
          /\ aux.constrs = Handles(Exprs(aux.constrs), 0)
          /\ ~hist.infeas
          /\ i = it
    /\ pc = "add" => (Len(aux.constrs) = it /\ hist.aux = it)
    /\ pc = "solve" => (Len(aux.constrs) = it + 1 /\ hist.aux = it)
    /\ pc = "slice" =>
          /\ Exprs(aux.constrs) = Prefix(Len(aux.constrs))
          /\ hist.aux = Len(aux.constrs)
          /\ hist.infeas <=> IsInfeasibleStatus(aux.status) /\ i < NumConstrs
          /\ hist.infeas => Len(aux.constrs) = i + 1
          /\ ~hist.infeas => Len(aux.constrs) = NumConstrs

\* the loop broke on its second constraint and left a third one unadded
C11_Witness ==
    /\ pc = "slice"
    /\ hist.infeas
    /\ i = 1
    /\ NumConstrs = 3
    /\ Len(aux.constrs) = 2

\* the candidate set: what the auxiliary model holds when the additive loop
\* is left
CandidateSet == Exprs(aux.constrs)

\* C12 as stated: Candidate-set invariant. At the end of the additive phase
\* every strict prefix of the candidate set, the empty one included, is
\* feasible with the mirrored variables, and the whole candidate set is
\* infeasible.
C12_CandidateSetInvariant ==
    pc = "slice" =>
        /\ \A k \in 0..(Len(CandidateSet) - 1) :
               Feasible(aux.vars, SubSeq(CandidateSet, 1, k))
        /\ ~Feasible(aux.vars, CandidateSet)

\* C12 as amended: when the additive loop breaks on a trigger the candidate
\* set is the constraints up to the trigger and is infeasible; whenever the
\* loop is about to add a constraint after others, the constraints added so
\* far were last solved with a status other than INFEASIBLE and
\* INT_INFEASIBLE, and if that status was FEASIBLE or OPTIMAL they and all
\* their prefixes, the empty one included, are feasible. Nothing is claimed of
\* the variables alone, which are never solved, nor of a loop that ends
\* without a break.
C12_CandidateSetAsSolved ==
    /\ (pc = "add" /\ it >= 1) =>
          /\ ~IsInfeasibleStatus(aux.status)
          /\ IsFeasibleStatus(aux.status) =>
                \A k \in 0..it : Feasible(aux.vars, Prefix(k))
    /\ (pc = "slice" /\ i < NumConstrs) =>
          /\ IsInfeasibleStatus(aux.status)
          /\ CandidateSet = Prefix(i + 1)
          /\ ~Feasible(aux.vars, CandidateSet)

\* a break on the third constraint, after two prefixes that are feasible
C12_Witness ==
    /\ pc = "slice"
    /\ i = 2
    /\ IsInfeasibleStatus(aux.status)
    /\ Feasible(aux.vars, Prefix(2))

\* the constraint removed by line 109 is in the auxiliary model again
PutBack == expr \in Range(Exprs(aux.constrs))

\* C13: Deletion decision by status. After the re-solve of a removal, the
\* constraint is back in the auxiliary model when the status is FEASIBLE or
\* OPTIMAL, and it stays out only when the status is INFEASIBLE or
\* INT_INFEASIBLE: on any other status it is not dropped from the result.
C13_DeletionDecisionByStatus ==
    ((pc = "del" /\ it >= 1) \/ (RanBothPhases /\ hist.removed >= 1)) =>
        /\ IsFeasibleStatus(aux.status) => PutBack
        /\ ~PutBack => IsInfeasibleStatus(aux.status)

\* how many times the expression e occurs in the sequence es
Occurrences(es, e) == Cardinality({k \in 1..Len(es) : es[k] = e})

\* C14: Deletion-phase scope. The constraints before the trigger are never
\* removed from the auxiliary model: from the end of the additive loop on
\* they stay at the head of its list, under their own handles. In one call at
\* most one constraint is removed and tested, and it is the trigger; so the
\* result is the whole candidate set or the candidate set without the
\* trigger, and holds every constraint before the trigger exactly once.
C14_DeletionScope ==
    /\ hist.removed <= 1
    /\ Len(temp) <= 1
    /\ temp # <<>> => (i < NumConstrs /\ temp = <<i>>)
    /\ (InDeletionPhase \/ RanBothPhases) =>
          /\ Len(aux.constrs) >= i
          /\ SubSeq(aux.constrs, 1, i) = Handles(Prefix(i), 0)
    /\ pc = "del_solve" => (expr = Trigger /\ Exprs(aux.constrs) = Prefix(i))
    /\ RanBothPhases =>
          /\ Result \in {IF TriggerFound THEN Prefix(i + 1) ELSE Prefix(i),
                         Prefix(i)}
          /\ \A k \in 1..i : Occurrences(Result, mip_model.constrs[k]) = 1

\* the trigger was the third constraint and was dropped; the two before it
\* are the result
C14_Witness ==
    /\ RanBothPhases
    /\ i = 2
    /\ hist.removed = 1
    /\ Result = Prefix(2)

\* C15: Variable mirror invariant. From the end of the build of the auxiliary
\* model to the return, its variables are those of the original model, one
\* for one, with the same name, lower bound, upper bound and kind; neither
\* phase adds, removes or changes a variable of either model; and before the
\* first addition the auxiliary model has no constraint and a zero objective.
C15_VariableMirror ==
    /\ mip_model.vars = entry.model.vars
    /\ pc = "vars" =>
          /\ aux.vars = SubSeq(mip_model.vars, 1, it)
          /\ aux.constrs = <<>>
          /\ aux.objective = 0
    /\ (InAdditivePhase \/ InDeletionPhase \/ RanBothPhases) =>
          /\ Len(aux.vars) = Len(mip_model.vars)
          /\ \A k \in 1..Len(mip_model.vars) :
                /\ aux.vars[k].name = mip_model.vars[k].name
                /\ aux.vars[k].lb = mip_model.vars[k].lb
                /\ aux.vars[k].ub = mip_model.vars[k].ub
                /\ aux.vars[k].var_type = mip_model.vars[k].var_type
          /\ aux.objective = 0
    /\ (pc = "add" /\ it = 0) => aux.constrs = <<>>

\* a premade model with a variable of its own was rebuilt for an original
\* whose first variable is an integer with bounds that are not the defaults,
\* and went through both phases
C15_Witness ==
    /\ RanBothPhases
    /\ premade
    /\ entry.aux.vars # <<>>
    /\ mip_model.vars = EmptyBoxVars
    /\ hist.removed = 1

\* the removal of line 109 has been re-solved by line 110
Tested == (pc = "del" /\ it >= 1) \/ (RanBothPhases /\ hist.removed >= 1)

\* C16: Re-insertion uses the cached expression. The expression held for
\* re-insertion is the one the trigger had before it was removed; nothing is
\* ever read through the handle of a removed constraint, which would give an
\* invalid row; and after a re-insertion the auxiliary model holds the
\* trigger's original expression exactly once, as its last constraint.
C16_CachedExpression ==
    /\ expr # InvalidRow
    /\ aux.exists => InvalidRow \notin Range(Exprs(aux.constrs))
    /\ pc = "del_solve" =>
          /\ expr = Trigger
          /\ Occurrences(Exprs(aux.constrs), Trigger) = 0
    /\ (Tested /\ IsFeasibleStatus(aux.status)) =>
          /\ expr = Trigger
          /\ Occurrences(Exprs(aux.constrs), Trigger) = 1
          /\ aux.constrs[Len(aux.constrs)].expr = Trigger

\* a trigger in second position was removed, the rest was found feasible and
\* the trigger was put back
C16_Witness ==
    /\ Tested
    /\ IsFeasibleStatus(aux.status)
    /\ i = 1
    /\ Len(aux.constrs) = 2

\* an upper bound on the steps the call has left: it is zero at the return
\* and every step of the call lowers it
Rank ==
    LET n == NumConstrs
        nv == Len(mip_model.vars)
    IN  CASE pc = "done" -> 0
          [] pc = "del" -> 2 * (Len(temp) - it) + 1
          [] pc = "del_solve" -> 2 * (Len(temp) - it)
          [] pc = "slice" -> 2 * n + 2
          [] pc = "solve" -> 2 * n + 2 + 2 * (n - it)
          [] pc = "add" -> 2 * n + 3 + 2 * (n - it)
          [] pc = "vars" -> 4 * n + 4 + (nv - it)
          [] pc = "check" -> 4 * n + 5 + nv
          [] pc = "entry" -> 4 * n + 6 + nv

\* the solves of the auxiliary model counted at the return
SolveCounts ==
    /\ hist.aux <= NumConstrs + 1
    /\ (Done /\ IsFeasibleStatus(mip_model.status)) => hist.aux = 0
    /\ TriggerFound => hist.aux = i + 2
    /\ (RanBothPhases /\ ~TriggerFound) => hist.aux = NumConstrs

\* a solve of the auxiliary model comes right after an addition or a removal
\* and is not followed by another solve of the same constraints
SolveFollowsChange ==
    hist'.aux # hist.aux /\ pc # "done" =>
        /\ hist'.aux = hist.aux + 1
        /\ pc \in {"solve", "del_solve"}
        /\ pc' \notin {"solve", "del_solve"}

\* the steps of the call that are not a solve
OwnStep ==
    \/ ReturnEmpty
    \/ SetupAux
    \/ MirrorVar
    \/ StartAdditive
    \/ AdditiveAdd
    \/ AdditiveExhausted
    \/ CopySlice
    \/ DeletionRemove
    \/ ReturnIis

\* where the call is not waiting for a solver, it can take a step of its own
CanStep == pc \in {"check", "vars", "add", "slice", "del"} => ENABLED OwnStep

\* C17: Bounded work and termination. Every call terminates, given that each
\* solve returns: until the return the call is at a solve or can take a step
\* of its own, and every step lowers a bound on the steps left. The auxiliary model is never solved when
\* the original is feasible, exactly k + 2 times when the trigger is at
\* 0-based position k, exactly n times when no trigger is found, hence never
\* more than n + 1 times for n constraints; and every solve follows a change
\* of the constraints, none is a retry.
C17_BoundedWork ==
    /\ [](SolveCounts /\ Rank >= 0 /\ CanStep)
    /\ [][pc # "done" => Rank' < Rank]_vars
    /\ [][SolveFollowsChange]_vars

\* a trigger in third position: four solves of the auxiliary model, which is
\* the most for three constraints
C17_Witness ==
    /\ TriggerFound
    /\ i = 2
    /\ hist.aux = 4
    /\ hist.orig = 1

\* the bounds of the original model's variables exclude every point
BoundsOnly == ~Feasible(mip_model.vars, <<>>)

\* C18 as stated: Bounds-only infeasibility. When the variables alone are
\* infeasible, the first constraint is the trigger, its removal is kept and
\* the result is empty, as it is for a feasible model; with no constraint at
\* all the result is empty too.
C18_BoundsOnlyInfeasibility ==
    /\ (RanBothPhases /\ BoundsOnly /\ NumConstrs >= 1) =>
          /\ i = 0
          /\ hist.removed = 1
          /\ ~PutBack
          /\ ret = Returned(EmptySet)
    /\ (RanBothPhases /\ NumConstrs = 0) => ret = Returned(EmptySet)

\* C18 as amended: when the variables alone are infeasible, the additive
\* loop goes past a constraint only on a status that is neither a feasible
\* nor an infeasible one; the trigger is the first constraint whose solve
\* returns INFEASIBLE or INT_INFEASIBLE, its removal is always kept and the
\* result is the constraints before it, which is empty, as for a feasible
\* model, when the trigger is the first constraint; without a trigger the
\* result is the whole list. With no constraint at all the result is empty.
C18_BoundsOnlyAsSolved ==
    /\ (pc = "add" /\ it >= 1 /\ BoundsOnly) =>
          (~IsFeasibleStatus(aux.status) /\ ~IsInfeasibleStatus(aux.status))
    /\ (Tested /\ BoundsOnly) => (~IsFeasibleStatus(aux.status) /\ ~PutBack)
    /\ (RanBothPhases /\ BoundsOnly) =>
          /\ TriggerFound <=> hist.infeas
          /\ TriggerFound => (hist.removed = 1 /\ Result = Prefix(i))
          /\ ~TriggerFound => Result = mip_model.constrs
          /\ (TriggerFound /\ i = 0) => ret = Returned(EmptySet)
    /\ (RanBothPhases /\ NumConstrs = 0) => ret = Returned(EmptySet)

\* an empty box and two constraints: the first one was the trigger and
\* nothing is returned
C18_Witness ==
    /\ RanBothPhases
    /\ BoundsOnly
    /\ NumConstrs = 2
    /\ i = 0
    /\ hist.removed = 1
    /\ ret = Returned(EmptySet)

\* the call returned from line 70
ShortCircuited == Done /\ ~RanBothPhases

\* C19: Short-circuit frame. When the original model is FEASIBLE or OPTIMAL
\* and a premade auxiliary model was passed, that model is not cleared, not
\* changed and not solved: up to the test of lines 67-69 and after the return
\* of line 70 it is, in its variables, constraints and everything else, what
\* it was at entry.
C19_ShortCircuitFrame ==
    (premade /\ (pc \in {"entry", "check"} \/ ShortCircuited)) =>
        /\ aux = entry.aux
        /\ aux.vars = entry.aux.vars
        /\ aux.constrs = entry.aux.constrs
        /\ hist.aux = 0

\* a first call, on a model that was solved at entry and found feasible,
\* returned with the premade model's stale variable and row in place
C19_Witness ==
    /\ ShortCircuited
    /\ premade
    /\ call = 1
    /\ hist.orig = 1
    /\ aux.vars # <<>>
    /\ aux.constrs # <<>>

====
